---- MODULE Spec2Model ----
(***************************************************************************)
(* A model of the sparse-voxel DAG volume store of                         *)
(* src/src/structures/voxeldag/storage copy.rs (Cubiquity's NodeDAG and    *)
(* Volume).  The octree keeps its 8 children per node; the two sizes that  *)
(* make the real state space astronomically large are scaled down:         *)
(*   MaterialCount  65536 -> 3   (materials 0, 1, 2)                       *)
(*   RootHeight        32 -> 2   (a 4 x 4 x 4 volume, signed coords -2..1) *)
(* The backing array has NodeStoreSize nodes.  Indices are unsigned and    *)
(* wrap modulo IndexModulus, as uint32 does in the source.                 *)
(***************************************************************************)
EXTENDS Integers, Sequences, FiniteSets, TLC

\* ------------------------------------------------------------------ sizes

\* const MaterialCount: u32 = (MaxMaterial as u32) + 1  (scaled from 65536)
MaterialCount == 3
\* logBase2(VolumeSideLength)  (scaled from 32)
RootHeight == 2
\* Number of nodes of the backing array (mNodes.size(), editNodesEnd()).
NodeStoreSize == 8
\* Number of edit and bake operations of one run.
MaxOps == 3
\* Number of operations of one run of the longer runs (SpecDeep).
MaxOpsDeep == 4
\* Number of point edits of the two-edit scenario (SpecScenario).
MaxOpsScenario == 2

MaxMaterial == MaterialCount - 1
MinMaterial == 0
Materials == MinMaterial..MaxMaterial
\* uint32 arithmetic wraps at this value.  The constructor's mEditNodesBegin
\* of -1 (the largest uint32) is the size of the store, so the modulus is one
\* more than that.
IndexModulus == NodeStoreSize + 1
\* 0xffffffff: the largest uint32, never the index of a node of the store.
InvalidIndex == IndexModulus - 1
Wrap(v) == v % IndexModulus

Pow2(n) == 2 ^ n
\* Signed coordinates of the volume: int32, scaled to RootHeight bits.
CoordMin == 0 - Pow2(RootHeight - 1)
CoordMax == Pow2(RootHeight - 1) - 1
Coord == CoordMin..CoordMax
ChildIds == 0..7

\* ------------------------------------------------------------------ nodes

\* type Node = std::array<uint32_t, 8>; child slot c is element c + 1.
makeNode(value) == <<value, value, value, value, value, value, value, value>>

isMaterialNode(nodeIndex) == nodeIndex < MaterialCount

bakedNodesBegin == MaterialCount
editNodesEnd == NodeStoreSize

\* An index of the backing array.  An access outside it is out of bounds.
InStore(index) == index >= 0 /\ index < NodeStoreSize

\* The execution context of one operation, d:
\*   nodes, bakedEnd, editBegin   the NodeDAG (mNodes, mBakedNodesEnd, mEditNodesBegin)
\*   assertFailed                 an assert(...) of the source did not hold
\*   matAccess                    the node array was read or written below MaterialCount
\*   mergeOverwrote               mergeNode wrote a node of its block onto a baked
\*                                node or below MaterialCount
\*   threw                        insert raised "Out of space for unshared edits!"
\*   oob                          the node array was accessed outside the store
\*   ret                          the value the last call returned
isBakedNode(d, index) == index >= bakedNodesBegin /\ index < d.bakedEnd
isEditNode(d, index) == index >= d.editBegin /\ index < editNodesEnd

\* mNodes[index]: the stored node.  Outside the store no node is there; the
\* callers flag the access (Touch) and the run ends as a crash.
NodeAt(nodes, index) == IF InStore(index) THEN nodes[index] ELSE makeNode(InvalidIndex)

\* Records an access of mNodes[index] in the context.
Touch(d, index) ==
  [d EXCEPT !.oob = @ \/ ~InStore(index),
            !.matAccess = @ \/ isMaterialNode(index)]

FailIf(d, cond) == [d EXCEPT !.assertFailed = @ \/ cond]

\* NodeStore::setNode
setNode(d, index, newNode) ==
  LET d1 == FailIf(Touch(d, index),
                   isMaterialNode(index) \/ (\E i \in 1..8 : newNode[i] = index))
  IN IF InStore(index) THEN [d1 EXCEPT !.nodes[index] = newNode] ELSE d1

\* NodeStore::setNodeChild
setNodeChild(d, nodeIndex, childId, newChildIndex) ==
  LET d1 == FailIf(Touch(d, nodeIndex),
                   isMaterialNode(nodeIndex) \/ newChildIndex = nodeIndex)
  IN IF InStore(nodeIndex)
       THEN [d1 EXCEPT !.nodes[nodeIndex][childId + 1] = newChildIndex]
       ELSE d1

\* NodeDAG::isPrunable
isPrunable(node) ==
  /\ isMaterialNode(node[1])
  /\ \A i \in 2..8 : node[i] = node[1]

\* NodeDAG::insert
insert(d, node) ==
  IF d.editBegin > d.bakedEnd
    THEN LET index == d.editBegin - 1
             d1 == setNode([d EXCEPT !.editBegin = index], index, node)
         IN [d1 EXCEPT !.ret = index]
    ELSE [d EXCEPT !.threw = TRUE, !.ret = 0]

\* NodeDAG::updateNodeChild.  The first assert reads mNodes[nodeIndex] whatever
\* nodeIndex is (recorded as matAssertRead when it is a material sentinel: the
\* read exists only in a build that keeps its asserts).
updateNodeChild(d, nodeIndex, childId, newChildNodeIndex, forceCopy) ==
  LET old == NodeAt(d.nodes, nodeIndex)
      d0 == FailIf(d, newChildNodeIndex = old[childId + 1]
                      \/ newChildNodeIndex = nodeIndex)
      d1 == [d0 EXCEPT !.matAssertRead = @ \/ isMaterialNode(nodeIndex)]
      modifyInPlace == isEditNode(d, nodeIndex) /\ ~forceCopy
  IN IF modifyInPlace
       THEN LET d2 == setNodeChild(d1, nodeIndex, childId, newChildNodeIndex)
            IN [d2 EXCEPT !.ret = IF isPrunable(NodeAt(d2.nodes, nodeIndex))
                                    THEN newChildNodeIndex ELSE nodeIndex]
       ELSE LET nodeIsMaterial == isMaterialNode(nodeIndex)
                d2 == IF nodeIsMaterial THEN d1 ELSE Touch(d1, nodeIndex)
                base == IF nodeIsMaterial THEN makeNode(nodeIndex) ELSE old
                newNode == [base EXCEPT ![childId + 1] = newChildNodeIndex]
            IN IF isPrunable(newNode)
                 THEN [d2 EXCEPT !.ret = newChildNodeIndex]
                 ELSE insert(d2, newNode)

\* NodeDAG::mergeNode.  map is the std::unordered_map<Node, uint32> as a set
\* of [node, index] pairs.  oldNode is a reference into mNodes: each oldNode[i]
\* is read from the array as it is at that moment.  The recursion of the
\* source has no bound of its own; a chain longer than the store has nodes is
\* a cycle, on which the source never returns (recorded like an access
\* outside the store).
RECURSIVE mergeNode(_, _, _, _, _)
RECURSIVE mergeChildren(_, _, _, _)
mergeChildren(st, nodeIndex, i, fuel) ==
  IF i > 7 \/ st.d.oob
    THEN st
    ELSE LET oldChildIndex == NodeAt(st.d.nodes, nodeIndex)[i + 1]
         IN IF ~isMaterialNode(oldChildIndex)
              THEN LET r == mergeNode(st.d, oldChildIndex, st.map, st.nextSpace, fuel - 1)
                   IN mergeChildren([d |-> r.d, map |-> r.map, nextSpace |-> r.nextSpace,
                                     newNode |-> [st.newNode EXCEPT ![i + 1] = r.ret]],
                                    nodeIndex, i + 1, fuel)
              ELSE mergeChildren([st EXCEPT !.newNode[i + 1] = oldChildIndex],
                                 nodeIndex, i + 1, fuel)

mergeNode(d, nodeIndex, map, nextSpace, fuel) ==
  IF fuel = 0 \/ ~InStore(nodeIndex)
    THEN [d |-> [d EXCEPT !.oob = TRUE], map |-> map, nextSpace |-> nextSpace, ret |-> 0]
    ELSE
      LET d0 == FailIf(Touch(d, nodeIndex), isMaterialNode(nodeIndex))
          st == mergeChildren([d |-> d0, map |-> map, nextSpace |-> nextSpace,
                               newNode |-> makeNode(0)], nodeIndex, 0, fuel)
          found == {e \in st.map : e.node = st.newNode}
      IN IF st.d.oob
           THEN [d |-> st.d, map |-> st.map, nextSpace |-> st.nextSpace, ret |-> 0]
         ELSE IF found = {}
           THEN [d |-> setNode([st.d EXCEPT !.mergeOverwrote =
                                  @ \/ isBakedNode(st.d, st.nextSpace)
                                    \/ isMaterialNode(st.nextSpace)],
                               st.nextSpace, st.newNode),
                 map |-> st.map \cup {[node |-> st.newNode, index |-> st.nextSpace]},
                 nextSpace |-> Wrap(st.nextSpace - 1),
                 ret |-> st.nextSpace]
           ELSE [d |-> st.d, map |-> st.map, nextSpace |-> st.nextSpace,
                 ret |-> (CHOOSE e \in found : TRUE).index]

\* NodeDAG::merge, the loop that copies the merged block to bakedNodesBegin().
RECURSIVE mergeRelocate(_, _, _)
mergeRelocate(d, offset, nodeIndex) ==
  IF nodeIndex < d.bakedEnd /\ ~d.oob
    THEN LET from == Wrap(nodeIndex - offset)
             node == NodeAt(d.nodes, from)
             shift(childIndex) == IF childIndex > MaxMaterial
                                    THEN Wrap(childIndex + offset) ELSE childIndex
             moved == <<shift(node[1]), shift(node[2]), shift(node[3]), shift(node[4]),
                        shift(node[5]), shift(node[6]), shift(node[7]), shift(node[8])>>
         IN mergeRelocate(setNode(Touch(d, from), nodeIndex, moved), offset, nodeIndex + 1)
    ELSE d

\* NodeDAG::merge
merge(d, index) ==
  LET mergedEnd == d.editBegin
      nextSpace == Wrap(mergedEnd - 1)
  IN IF isMaterialNode(index)
       THEN [d EXCEPT !.bakedEnd = bakedNodesBegin]
       ELSE LET r == mergeNode(d, index, {}, nextSpace, NodeStoreSize)
                mergedRoot == r.ret
                actualNodeCount == Wrap(mergedEnd - mergedRoot)
                d1 == [r.d EXCEPT !.bakedEnd = Wrap(bakedNodesBegin + actualNodeCount)]
                offset == Wrap(bakedNodesBegin - mergedRoot)
            IN mergeRelocate(d1, offset, bakedNodesBegin)

\* ------------------------------------------------------------ coordinates

\* static_cast<uint32>(x) ^ (1UL << 31): the two's complement pattern of x with
\* its top bit flipped.
ToUnsigned(x) ==
  LET pattern == (x + Pow2(RootHeight)) % Pow2(RootHeight)
  IN (pattern + Pow2(RootHeight - 1)) % Pow2(RootHeight)

\* (t >> childHeight) & 0x01
BitAt(x, childHeight) == (ToUnsigned(x) \div Pow2(childHeight)) % 2

\* childZ << 2 | childY << 1 | childX, for the node at nodeHeight
ChildIdAt(x, y, z, nodeHeight) ==
  4 * BitAt(z, nodeHeight - 1) + 2 * BitAt(y, nodeHeight - 1) + BitAt(x, nodeHeight - 1)

\* ------------------------------------------------------------------ Volume

\* The state of a Volume as a value: v.nodes, v.bakedEnd, v.editBegin (mDAG),
\* v.track (mTrackEdits), v.roots (mRootNodeIndices, element k at k + 1),
\* v.cur (mCurrentRoot).
Ctx(v) ==
  [nodes |-> v.nodes, bakedEnd |-> v.bakedEnd, editBegin |-> v.editBegin,
   assertFailed |-> FALSE, matAccess |-> FALSE, matAssertRead |-> FALSE,
   mergeOverwrote |-> FALSE, threw |-> FALSE, oob |-> FALSE, ret |-> 0]

\* Volume::rootNodeIndex
rootNodeIndex(v) == v.roots[v.cur + 1]

\* What voxel() yields where the source has no defined result (it indexes the
\* node array outside the store).
Undefined == 0 - 1

\* Volume::voxel, from nodeIndex at height.  The loop runs while height >= 1;
\* at height 0 the index is cast to MaterialId (its low 16 bits, here its
\* residue modulo MaterialCount).
RECURSIVE voxelFrom(_, _, _, _, _, _)
voxelFrom(nodes, nodeIndex, height, x, y, z) ==
  IF height >= 1
    THEN IF isMaterialNode(nodeIndex) THEN nodeIndex
         ELSE IF ~InStore(nodeIndex) THEN Undefined
         ELSE voxelFrom(nodes, nodes[nodeIndex][ChildIdAt(x, y, z, height) + 1],
                        height - 1, x, y, z)
    ELSE nodeIndex % MaterialCount

voxel(v, x, y, z) == voxelFrom(v.nodes, rootNodeIndex(v), RootHeight, x, y, z)

\* The final assert of voxel(): at height 0 the index is a material.
RECURSIVE voxelAssertFrom(_, _, _, _, _, _)
voxelAssertFrom(nodes, nodeIndex, height, x, y, z) ==
  IF height >= 1
    THEN IF isMaterialNode(nodeIndex) THEN TRUE
         ELSE IF ~InStore(nodeIndex) THEN FALSE
         ELSE voxelAssertFrom(nodes, nodes[nodeIndex][ChildIdAt(x, y, z, height) + 1],
                              height - 1, x, y, z)
    ELSE isMaterialNode(nodeIndex)

\* A faulty variant of NodeDAG::countNodes(startNodeIndex, usedIndices): the
\* material test is made on each child before the call, and only the children
\* are inserted into usedIndices, never the node the count starts from.
RECURSIVE countNodesFromChildren(_, _, _)
countNodesFromChildren(nodes, startNodeIndex, path) ==
  IF isMaterialNode(startNodeIndex)
    THEN [usedIndices |-> {}, defined |-> TRUE]
  ELSE IF ~InStore(startNodeIndex) \/ startNodeIndex \in path
    THEN [usedIndices |-> {}, defined |-> FALSE]
  ELSE LET children == {nodes[startNodeIndex][c + 1] : c \in ChildIds}
           below == {countNodesFromChildren(nodes, child, path \cup {startNodeIndex}) :
                       child \in children}
       IN [usedIndices |-> {child \in children : ~isMaterialNode(child)}
                             \cup UNION {r.usedIndices : r \in below},
           defined |-> \A r \in below : r.defined]

\* NodeDAG::countNodes(startNodeIndex, usedIndices).  The source recurses into
\* the children of a node whether or not the node is in usedIndices already:
\* on a cycle (path holds the indices above startNodeIndex) it never returns,
\* and an index outside the store is an access outside the node array.
RECURSIVE countNodesFrom(_, _, _)
countNodesFrom(nodes, startNodeIndex, path) ==
  IF isMaterialNode(startNodeIndex)
    THEN [usedIndices |-> {}, defined |-> TRUE]
  ELSE IF ~InStore(startNodeIndex) \/ startNodeIndex \in path
    THEN [usedIndices |-> {}, defined |-> FALSE]
  ELSE LET below == {countNodesFrom(nodes, nodes[startNodeIndex][c + 1],
                                    path \cup {startNodeIndex}) : c \in ChildIds}
       IN [usedIndices |-> {startNodeIndex} \cup UNION {r.usedIndices : r \in below},
           defined |-> \A r \in below : r.defined]

\* NodeDAG::countNodes(startNodeIndex)
countNodes(nodes, startNodeIndex) ==
  LET r == countNodesFrom(nodes, startNodeIndex, {})
  IN IF r.defined THEN Cardinality(r.usedIndices) ELSE Undefined

\* Volume::countNodes(): NodeDAG::countNodes(rootNodeIndex())
volumeCountNodes(v) == countNodes(v.nodes, rootNodeIndex(v))

\* A faulty variant of Volume::setRootNodeIndex: the new root is stored at
\* mCurrentRoot before mCurrentRoot is incremented, so under tracking the live
\* root is the element resize() created or an older entry.
setRootNodeIndexStale(v, newRootNodeIndex) ==
  IF v.track
    THEN LET cur1 == v.cur + 1
             roots1 == IF cur1 >= Len(v.roots) THEN Append(v.roots, 0) ELSE v.roots
         IN [roots |-> [roots1 EXCEPT ![v.cur + 1] = newRootNodeIndex],
             cur |-> cur1,
             assertFailed |-> (newRootNodeIndex = v.roots[v.cur + 1])]
    ELSE [roots |-> [v.roots EXCEPT ![v.cur + 1] = newRootNodeIndex],
          cur |-> v.cur,
          assertFailed |-> FALSE]

\* Volume::setRootNodeIndex.  resize() value-initialises the new element to 0.
setRootNodeIndex(v, newRootNodeIndex) ==
  IF v.track
    THEN LET cur1 == v.cur + 1
             roots1 == IF cur1 >= Len(v.roots) THEN Append(v.roots, 0) ELSE v.roots
         IN [roots |-> [roots1 EXCEPT ![cur1 + 1] = newRootNodeIndex],
             cur |-> cur1,
             assertFailed |-> (newRootNodeIndex = v.roots[v.cur + 1])]
    ELSE [roots |-> [v.roots EXCEPT ![v.cur + 1] = newRootNodeIndex],
          cur |-> v.cur,
          assertFailed |-> FALSE]

\* The outcome of a public operation: the Volume after it and how it ended.
\*   res = "ok"       it returned
\*   res = "threw"    insert threw; what was written before the throw stays
\*   res = "crashed"  it accessed the node array outside the store
Outcome(v, d, rootSet, newRoot) ==
  LET dagv == [v EXCEPT !.nodes = d.nodes, !.bakedEnd = d.bakedEnd,
                        !.editBegin = d.editBegin]
      sr == setRootNodeIndex(dagv, newRoot)
      done == rootSet /\ ~d.threw /\ ~d.oob
  IN [v |-> IF done THEN [dagv EXCEPT !.roots = sr.roots, !.cur = sr.cur] ELSE dagv,
      res |-> IF d.oob THEN "crashed" ELSE IF d.threw THEN "threw" ELSE "ok",
      assertFailed |-> d.assertFailed \/ (done /\ sr.assertFailed),
      matAccess |-> d.matAccess,
      matAssertRead |-> d.matAssertRead,
      mergeOverwrote |-> d.mergeOverwrote,
      rootSet |-> done]

\* Volume::fill
fill(v, matId) == Outcome(v, Ctx(v), TRUE, matId)

\* Volume::setVoxelRecursive(ux, uy, uz, matId, nodeIndex, nodeHeight); ret is
\* the index it returns.
RECURSIVE setVoxelRecursiveFrom(_, _, _, _, _, _, _, _)
setVoxelRecursiveFrom(d, x, y, z, matId, nodeIndex, nodeHeight, track) ==
  LET d0 == FailIf(d, ~(nodeHeight > 0))
      childId == ChildIdAt(x, y, z, nodeHeight)
      nodeIsMaterial == isMaterialNode(nodeIndex)
      d1 == IF nodeIsMaterial THEN d0 ELSE Touch(d0, nodeIndex)
      childNodeIndex == IF nodeIsMaterial THEN nodeIndex
                        ELSE NodeAt(d.nodes, nodeIndex)[childId + 1]
  IN IF d1.oob
       THEN d1
     ELSE IF childNodeIndex = matId
       THEN [d1 EXCEPT !.ret = nodeIndex]
     ELSE IF nodeHeight > 1
       THEN LET d2 == setVoxelRecursiveFrom(d1, x, y, z, matId, childNodeIndex,
                                            nodeHeight - 1, track)
            IN IF d2.threw \/ d2.oob THEN d2
               ELSE IF d2.ret = childNodeIndex THEN [d2 EXCEPT !.ret = nodeIndex]
               ELSE updateNodeChild(d2, nodeIndex, childId, d2.ret, track)
     ELSE updateNodeChild(d1, nodeIndex, childId, matId, track)

\* Volume::setVoxelRecursive(x, y, z, matId)
setVoxelRecursive(v, x, y, z, matId) ==
  LET d == setVoxelRecursiveFrom(Ctx(v), x, y, z, matId, rootNodeIndex(v), RootHeight,
                                 v.track)
  IN Outcome(v, d, TRUE, d.ret)

\* Volume::setVoxel: the loop over nodeStateStack.  stack[h] is
\* nodeStateStack[h]; the result's early is the return from inside the loop.
RECURSIVE setVoxelLoop(_, _, _, _, _, _, _, _)
setVoxelLoop(d, stack, nodeHeight, x, y, z, matId, track) ==
  LET nodeState == stack[nodeHeight]
      childId == ChildIdAt(x, y, z, nodeHeight)
  IN IF d.threw \/ d.oob
       THEN [d |-> d, stack |-> stack, early |-> FALSE]
     ELSE IF ~nodeState.mProcessedNode
       THEN LET nodeIsMaterial == isMaterialNode(nodeState.mIndex)
                d1 == IF nodeIsMaterial THEN d ELSE Touch(d, nodeState.mIndex)
                childNodeIndex == IF nodeIsMaterial THEN nodeState.mIndex
                                  ELSE NodeAt(d.nodes, nodeState.mIndex)[childId + 1]
                s1 == IF nodeHeight >= 2
                        THEN [stack EXCEPT ![nodeHeight - 1] =
                                [mIndex |-> childNodeIndex, mProcessedNode |-> FALSE]]
                        ELSE stack
                s2 == [s1 EXCEPT ![nodeHeight].mProcessedNode = TRUE]
            IN IF childNodeIndex = matId
                 THEN [d |-> d1, stack |-> stack, early |-> TRUE]
                 ELSE setVoxelLoop(d1, s2,
                                   IF nodeHeight >= 2 THEN nodeHeight - 1 ELSE nodeHeight,
                                   x, y, z, matId, track)
       ELSE LET childNodeState == stack[nodeHeight - 1]
                d1 == IF nodeHeight > 1 THEN Touch(d, nodeState.mIndex) ELSE d
                changed == NodeAt(d.nodes, nodeState.mIndex)[childId + 1]
                             # childNodeState.mIndex
                d2 == IF nodeHeight > 1
                        THEN IF changed
                               THEN updateNodeChild(d1, nodeState.mIndex, childId,
                                                    childNodeState.mIndex, track)
                               ELSE [d1 EXCEPT !.ret = nodeState.mIndex]
                        ELSE updateNodeChild(d1, nodeState.mIndex, childId, matId, track)
                s1 == [stack EXCEPT ![nodeHeight].mIndex = d2.ret]
            IN IF d2.threw \/ d2.oob \/ nodeHeight + 1 > RootHeight
                 THEN [d |-> d2, stack |-> s1, early |-> FALSE]
                 ELSE setVoxelLoop(d2, s1, nodeHeight + 1, x, y, z, matId, track)

\* Volume::setVoxel
setVoxel(v, x, y, z, matId) ==
  LET stack0 == [h \in 0..RootHeight |->
                   IF h = RootHeight
                     THEN [mIndex |-> rootNodeIndex(v), mProcessedNode |-> FALSE]
                     ELSE [mIndex |-> 0, mProcessedNode |-> FALSE]]
      r == setVoxelLoop(Ctx(v), stack0, RootHeight, x, y, z, matId, v.track)
  IN Outcome(v, r.d, ~r.early, r.stack[RootHeight].mIndex)

\* A faulty variant of Volume::setTrackEdits: the history is cut to its first
\* entry without the live root being copied there first.
setTrackEditsKeepFirst(v, trackEdits) ==
  IF trackEdits
    THEN [v EXCEPT !.track = TRUE]
    ELSE [v EXCEPT !.track = FALSE, !.roots = <<v.roots[1]>>, !.cur = 0]

\* Volume::setTrackEdits
setTrackEdits(v, trackEdits) ==
  IF trackEdits
    THEN [v EXCEPT !.track = TRUE]
    ELSE [v EXCEPT !.track = FALSE, !.roots = <<v.roots[v.cur + 1]>>, !.cur = 0]

\* Volume::undo (ret is its return value)
undo(v) ==
  IF v.cur > 0 THEN [v |-> [v EXCEPT !.cur = v.cur - 1], ret |-> TRUE]
               ELSE [v |-> v, ret |-> FALSE]

\* A faulty variant of Volume::redo: the bound is off by one
\* (mCurrentRoot <= mRootNodeIndices.size() - 1).
redoPastEnd(v) ==
  IF v.cur <= Len(v.roots) - 1 THEN [v |-> [v EXCEPT !.cur = v.cur + 1], ret |-> TRUE]
                               ELSE [v |-> v, ret |-> FALSE]

\* Volume::redo
redo(v) ==
  IF v.cur < Len(v.roots) - 1 THEN [v |-> [v EXCEPT !.cur = v.cur + 1], ret |-> TRUE]
                              ELSE [v |-> v, ret |-> FALSE]

\* Volume::bake
bake(v) == Outcome(v, merge(Ctx(v), rootNodeIndex(v)), TRUE, bakedNodesBegin)

\* NodeDAG::write: the node count and the baked nodes, as the file holds them
\* (nodes[ct + 1] is the record of node bakedNodesBegin() + ct).
write(d) ==
  LET nodeCount == Wrap(d.bakedEnd - bakedNodesBegin)
  IN [d |-> [d EXCEPT !.oob = @ \/ bakedNodesBegin + nodeCount > NodeStoreSize],
      nodeCount |-> nodeCount,
      nodes |-> [ct \in 1..nodeCount |-> NodeAt(d.nodes, bakedNodesBegin + ct - 1)]]

\* Volume::save.  The file is the root index followed by what write() writes.
save(v) ==
  LET b == bake(v)
      w == write(Ctx(b.v))
  IN [v |-> b.v,
      res |-> IF b.res = "ok" /\ w.d.oob THEN "crashed" ELSE b.res,
      assertFailed |-> b.assertFailed,
      file |-> [rootNodeIndex |-> rootNodeIndex(b.v), nodeCount |-> w.nodeCount,
                nodes |-> w.nodes]]

\* NodeDAG::read, the loop over the node records from record ct on.
RECURSIVE readNodes(_, _, _)
readNodes(d, file, ct) ==
  IF ct >= file.nodeCount \/ d.oob
    THEN d
    ELSE readNodes(setNode(d, bakedNodesBegin + ct, file.nodes[ct + 1]), file, ct + 1)

\* NodeDAG::read
read(d, file) ==
  [readNodes(d, file, 0) EXCEPT !.bakedEnd = Wrap(bakedNodesBegin + file.nodeCount)]

\* Volume::load of a file that opens
load(v, file) ==
  LET d == read(Ctx(v), file)
      root == IF file.rootNodeIndex >= MaterialCount
                THEN Wrap(file.rootNodeIndex + (bakedNodesBegin - MaterialCount))
                ELSE file.rootNodeIndex
  IN Outcome(v, d, TRUE, root)

\* int32 arithmetic of the octant bounds wraps.
WrapCoord(c) == ((c - CoordMin) % Pow2(RootHeight)) + CoordMin

FloatMantissaBits == 24

RECURSIVE Log2Floor(_)
Log2Floor(a) == IF a < 2 THEN 0 ELSE 1 + Log2Floor(a \div 2)

\* static_cast<float>(int32): the nearest float, ties to even.
ToFloat(c) ==
  LET a == IF c < 0 THEN 0 - c ELSE c
      e == Log2Floor(a)
      q == Pow2(e + 1 - FloatMantissaBits)
      lo == (a \div q) * q
      rem == a - lo
      r == IF 2 * rem < q THEN lo
           ELSE IF 2 * rem > q THEN lo + q
           ELSE IF (lo \div q) % 2 = 0 THEN lo ELSE lo + q
  IN IF e < FloatMantissaBits THEN c ELSE IF c < 0 THEN 0 - r ELSE r

\* A Brush is an axis-aligned box [lo, hi] of float corners.
\* Brush::contains
BrushContains(brush, px, py, pz) ==
  /\ brush.lo[1] <= px /\ px <= brush.hi[1]
  /\ brush.lo[2] <= py /\ py <= brush.hi[2]
  /\ brush.lo[3] <= pz /\ pz <= brush.hi[3]

\* Brush::bounds
BrushBounds(brush) == brush

\* overlaps(Box3f, Box3f)
overlaps(a, b) ==
  \A k \in 1..3 : a.lo[k] <= b.hi[k] /\ b.lo[k] <= a.hi[k]

\* Volume::fillBrush (recursive): the body of the three nested loops for the
\* children from childId on; ret is the function's return value.
RECURSIVE fillBrushFrom(_, _, _, _, _, _, _, _)
fillBrushFrom(d, brush, matId, nodeIndex, nodeHeight, nodeLower, track, childId) ==
  IF childId > 7 \/ d.threw \/ d.oob
    THEN [d EXCEPT !.ret = nodeIndex]
    ELSE
      LET childHeight == nodeHeight - 1
          childSideLength == Pow2(childHeight)
          childX == childId % 2
          childY == (childId \div 2) % 2
          childZ == (childId \div 4) % 2
          childLowerX == WrapCoord(nodeLower[1] + childSideLength * childX)
          childLowerY == WrapCoord(nodeLower[2] + childSideLength * childY)
          childLowerZ == WrapCoord(nodeLower[3] + childSideLength * childZ)
          childUpperX == WrapCoord(childLowerX + (childSideLength - 1))
          childUpperY == WrapCoord(childLowerY + (childSideLength - 1))
          childUpperZ == WrapCoord(childLowerZ + (childSideLength - 1))
          childBounds ==
            [lo |-> <<ToFloat(childLowerX), ToFloat(childLowerY), ToFloat(childLowerZ)>>,
             hi |-> <<ToFloat(childUpperX), ToFloat(childUpperY), ToFloat(childUpperZ)>>]
          allCornersInsideBrush ==
            \A cx \in {childLowerX, childUpperX}, cy \in {childLowerY, childUpperY},
               cz \in {childLowerZ, childUpperZ} :
              BrushContains(brush, ToFloat(cx), ToFloat(cy), ToFloat(cz))
          nodeIsMaterial == isMaterialNode(nodeIndex)
          d1 == IF nodeIsMaterial THEN d ELSE Touch(d, nodeIndex)
          childNodeIndex == IF nodeIsMaterial THEN nodeIndex
                            ELSE NodeAt(d.nodes, nodeIndex)[childId + 1]
          recurse == nodeHeight >= 2 /\ ~allCornersInsideBrush
          d2 == IF recurse
                  THEN fillBrushFrom(d1, brush, matId, childNodeIndex, nodeHeight - 1,
                                     <<childLowerX, childLowerY, childLowerZ>>, track, 0)
                  ELSE d1
          newChildNodeIndex == IF recurse THEN d2.ret
                               ELSE IF allCornersInsideBrush THEN matId
                               ELSE childNodeIndex
          d3 == IF d2.threw \/ d2.oob THEN d2
                ELSE IF childNodeIndex # newChildNodeIndex
                  THEN updateNodeChild(d2, nodeIndex, childId, newChildNodeIndex, track)
                  ELSE [d2 EXCEPT !.ret = nodeIndex]
      IN IF ~overlaps(BrushBounds(brush), childBounds)
           THEN fillBrushFrom(d, brush, matId, nodeIndex, nodeHeight, nodeLower, track,
                              childId + 1)
         ELSE IF d1.oob
           THEN d1
         ELSE IF childNodeIndex = matId
           THEN fillBrushFrom(d1, brush, matId, nodeIndex, nodeHeight, nodeLower, track,
                              childId + 1)
         ELSE fillBrushFrom(d3, brush, matId, d3.ret, nodeHeight, nodeLower, track,
                            childId + 1)

\* Volume::fillBrush
fillBrush(v, brush, matId) ==
  LET d == fillBrushFrom(Ctx(v), brush, matId, rootNodeIndex(v), RootHeight,
                         <<CoordMin, CoordMin, CoordMin>>, v.track, 0)
  IN Outcome(v, d, TRUE, d.ret)

\* Volume::addVolume (recursive), for the children from childId on.  A call
\* at height 0 shifts by a negative amount and has no defined result
\* (recorded like an access outside the store).
RECURSIVE addVolumeFrom(_, _, _, _, _, _, _)
addVolumeFrom(d, rhsVolume, rhsNodeIndex, nodeIndex, nodeHeight, track, childId) ==
  IF nodeHeight < 1
    THEN [d EXCEPT !.oob = TRUE]
  ELSE IF childId > 7 \/ d.threw \/ d.oob
    THEN [d EXCEPT !.ret = nodeIndex]
    ELSE
      LET nodeIsMaterial == isMaterialNode(nodeIndex)
          rhsNodeIsMaterial == isMaterialNode(rhsNodeIndex)
          d1 == IF nodeIsMaterial THEN d ELSE Touch(d, nodeIndex)
          d1r == [d1 EXCEPT !.oob = @ \/ (~rhsNodeIsMaterial /\ ~InStore(rhsNodeIndex))]
          childNodeIndex == IF nodeIsMaterial THEN nodeIndex
                            ELSE NodeAt(d.nodes, nodeIndex)[childId + 1]
          rhsChildNodeIndex == IF rhsNodeIsMaterial THEN rhsNodeIndex
                               ELSE NodeAt(rhsVolume.nodes, rhsNodeIndex)[childId + 1]
          emptyMaterial == 0
          recurse == rhsChildNodeIndex # emptyMaterial /\ ~isMaterialNode(rhsChildNodeIndex)
          d2 == IF recurse
                  THEN addVolumeFrom(d1r, rhsVolume, rhsChildNodeIndex, childNodeIndex,
                                     nodeHeight - 1, track, 0)
                  ELSE d1r
          newChildNodeIndex == IF rhsChildNodeIndex = emptyMaterial THEN childNodeIndex
                               ELSE IF recurse THEN d2.ret
                               ELSE rhsChildNodeIndex
          d3 == IF d2.threw \/ d2.oob THEN d2
                ELSE IF childNodeIndex # newChildNodeIndex
                  THEN updateNodeChild(d2, nodeIndex, childId, newChildNodeIndex, track)
                  ELSE [d2 EXCEPT !.ret = nodeIndex]
      IN IF d1r.oob
           THEN d1r
         ELSE IF isMaterialNode(childNodeIndex) /\ isMaterialNode(rhsChildNodeIndex)
                 /\ childNodeIndex = rhsChildNodeIndex
           THEN addVolumeFrom(d1r, rhsVolume, rhsNodeIndex, nodeIndex, nodeHeight, track,
                              childId + 1)
         ELSE addVolumeFrom(d3, rhsVolume, rhsNodeIndex, d3.ret, nodeHeight, track,
                            childId + 1)

\* Volume::addVolume
addVolume(v, rhsVolume) ==
  LET d == addVolumeFrom(Ctx(v), rhsVolume, rootNodeIndex(rhsVolume), rootNodeIndex(v),
                         RootHeight, v.track, 0)
  IN Outcome(v, d, TRUE, d.ret)

\* ------------------------------------------------------------------ state

VARIABLES
  mNodes,            \* NodeDAG::mNodes
  mBakedNodesEnd,    \* NodeDAG::mBakedNodesEnd
  mEditNodesBegin,   \* NodeDAG::mEditNodesBegin
  mTrackEdits,       \* Volume::mTrackEdits
  mRootNodeIndices,  \* Volume::mRootNodeIndices
  mCurrentRoot,      \* Volume::mCurrentRoot
  ops,               \* edit and bake operations run so far
  asserted,          \* an assert of the source has failed in some operation so
                     \* far (a build that keeps its asserts has aborted there)
  lastOp             \* the last public operation, its arguments and how it ended

vars == <<mNodes, mBakedNodesEnd, mEditNodesBegin, mTrackEdits,
          mRootNodeIndices, mCurrentRoot, ops, asserted, lastOp>>

\* The Volume of the current state.
Vol ==
  [nodes |-> mNodes, bakedEnd |-> mBakedNodesEnd, editBegin |-> mEditNodesBegin,
   track |-> mTrackEdits, roots |-> mRootNodeIndices, cur |-> mCurrentRoot]

\* The node array is never initialised by the source (the debugging fill of
\* load() is commented out), so its first content is whatever the allocation
\* holds: fresh zero pages, or a fill pattern that is no index of the store.
GarbageValues == {0, InvalidIndex}

\* Volume::Volume() over a store whose nodes all hold garbage.
NewVolume(garbage) ==
  [nodes |-> [i \in 0..(NodeStoreSize - 1) |-> makeNode(garbage)],
   bakedEnd |-> MaterialCount,
   editBegin |-> NodeStoreSize,
   track |-> FALSE,
   roots |-> <<0>>,
   cur |-> 0]

NoOp == [op |-> "new", x |-> 0, y |-> 0, z |-> 0, m |-> 0, res |-> "ok",
         assertFailed |-> FALSE, matAccess |-> FALSE, matAssertRead |-> FALSE,
         mergeOverwrote |-> FALSE, rootSet |-> FALSE]

Install(v) ==
  /\ mNodes' = v.nodes
  /\ mBakedNodesEnd' = v.bakedEnd
  /\ mEditNodesBegin' = v.editBegin
  /\ mTrackEdits' = v.track
  /\ mRootNodeIndices' = v.roots
  /\ mCurrentRoot' = v.cur

Record(op, x, y, z, m, r) ==
  lastOp' = [op |-> op, x |-> x, y |-> y, z |-> z, m |-> m, res |-> r.res,
             assertFailed |-> r.assertFailed, matAccess |-> r.matAccess,
             matAssertRead |-> r.matAssertRead,
             mergeOverwrote |-> r.mergeOverwrote, rootSet |-> r.rootSet]

Running == lastOp.res # "crashed"

Init ==
  \E garbage \in GarbageValues :
    LET v == NewVolume(garbage)
    IN /\ mNodes = v.nodes
       /\ mBakedNodesEnd = v.bakedEnd
       /\ mEditNodesBegin = v.editBegin
       /\ mTrackEdits = v.track
       /\ mRootNodeIndices = v.roots
       /\ mCurrentRoot = v.cur
       /\ ops = 0
       /\ asserted = FALSE
       /\ lastOp = NoOp

\* The coordinates the edits use: the two extreme corners, which lie in
\* opposite octants of the root, and the origin, which shares its leaf node
\* with the upper corner.
EditCoords ==
  {<<CoordMin, CoordMin, CoordMin>>, <<CoordMax, CoordMax, CoordMax>>, <<0, 0, 0>>}

\* An edit or a bake, in a run of at most limit of them.
StepUpTo(limit, op, x, y, z, m, r) ==
  /\ Running
  /\ ops < limit
  /\ ops' = ops + 1
  /\ asserted' = (asserted \/ r.assertFailed)
  /\ Install(r.v)
  /\ Record(op, x, y, z, m, r)

\* An edit or a bake: counted against MaxOps.
Step(op, x, y, z, m, r) == StepUpTo(MaxOps, op, x, y, z, m, r)

SetVoxel ==
  \E p \in EditCoords, m \in Materials :
    Step("setVoxel", p[1], p[2], p[3], m, setVoxel(Vol, p[1], p[2], p[3], m))

Fill ==
  \E m \in Materials : Step("fill", 0, 0, 0, m, fill(Vol, m))

\* The brushes of the fills: the upper octant exactly, a bar across two
\* octants, and the whole volume.
Brushes ==
  << [lo |-> <<0, 0, 0>>, hi |-> <<CoordMax, CoordMax, CoordMax>>],
     [lo |-> <<0 - 1, 0, 0>>, hi |-> <<0, 0, 0>>],
     [lo |-> <<CoordMin, CoordMin, CoordMin>>, hi |-> <<CoordMax, CoordMax, CoordMax>>] >>

FillBrush ==
  \E b \in 1..Len(Brushes), m \in Materials :
    Step("fillBrush", b, 0, 0, m, fillBrush(Vol, Brushes[b], m))

\* The right-hand volumes of addVolume: an empty one, a uniform one, and one
\* with two voxels of different materials.
RhsVolumes ==
  << NewVolume(0),
     fill(NewVolume(0), 1).v,
     setVoxel(setVoxel(NewVolume(0), 0, 0, 0, 2).v, CoordMin, CoordMin, CoordMin, 1).v >>

AddVolume ==
  \E k \in 1..Len(RhsVolumes) :
    Step("addVolume", k, 0, 0, 0, addVolume(Vol, RhsVolumes[k]))

Bake == Step("bake", 0, 0, 0, 0, bake(Vol))

\* undo, redo and setTrackEdits are not counted: they allocate nothing.  A
\* call that leaves the Volume as it is (undo() returning false, ...) leaves
\* the state as it is.
Plain(op, m, v, ret) ==
  /\ Running
  /\ Install(v)
  /\ UNCHANGED <<ops, asserted>>
  /\ lastOp' = IF v = Vol THEN lastOp
               ELSE [NoOp EXCEPT !.op = op, !.m = m, !.rootSet = ret]

Undo == LET r == undo(Vol) IN Plain("undo", 0, r.v, r.ret)

Redo == LET r == redo(Vol) IN Plain("redo", 0, r.v, r.ret)

SetTrackEdits ==
  \E b \in BOOLEAN :
    Plain("setTrackEdits", IF b THEN 1 ELSE 0, setTrackEdits(Vol, b), FALSE)

Next ==
  \/ SetVoxel
  \/ Fill
  \/ FillBrush
  \/ AddVolume
  \/ Bake
  \/ Undo
  \/ Redo
  \/ SetTrackEdits

Spec == Init /\ [][Next]_vars

\* Longer runs of fewer operations: combines, brush fills and bakes only,
\* MaxOpsDeep of them, with trackEdits off throughout.
DeepAddVolume ==
  \E k \in 1..Len(RhsVolumes) :
    StepUpTo(MaxOpsDeep, "addVolume", k, 0, 0, 0, addVolume(Vol, RhsVolumes[k]))

DeepFillBrush ==
  \E b \in 1..Len(Brushes), m \in Materials :
    StepUpTo(MaxOpsDeep, "fillBrush", b, 0, 0, m, fillBrush(Vol, Brushes[b], m))

DeepBake == StepUpTo(MaxOpsDeep, "bake", 0, 0, 0, 0, bake(Vol))

NextDeep ==
  \/ DeepAddVolume
  \/ DeepFillBrush
  \/ DeepBake

SpecDeep == Init /\ [][NextDeep]_vars

\* The runs of point edits, fills and bakes with undo, redo and setTrackEdits:
\* the operations on the root history, without brush fills and combines.
NextHistory ==
  \/ SetVoxel
  \/ Fill
  \/ Bake
  \/ Undo
  \/ Redo
  \/ SetTrackEdits

SpecHistory == Init /\ [][NextHistory]_vars

\* The runs of the two-edit scenario: MaxOpsScenario point edits of the
\* freshly constructed volume, and nothing else.
ScenarioSetVoxel ==
  \E p \in EditCoords, m \in Materials :
    StepUpTo(MaxOpsScenario, "setVoxel", p[1], p[2], p[3], m,
             setVoxel(Vol, p[1], p[2], p[3], m))

NextScenario == ScenarioSetVoxel

SpecScenario == Init /\ [][NextScenario]_vars

\* Longer runs with the root history: brush fills and bakes, MaxOpsDeep of
\* them, with trackEdits switched on and off.
NextRebake ==
  \/ DeepFillBrush
  \/ DeepBake
  \/ SetTrackEdits

SpecRebake == Init /\ [][NextRebake]_vars

\* ----------------------------------------------------------------- claims

AllCoords == Coord \X Coord \X Coord

\* voxel(q) in the current state
VoxelAt(q) == voxel(Vol, q[1], q[2], q[3])

\* The step is a call of the public operation op (an edit or a bake).
Called(op) == ops' = ops + 1 /\ lastOp'.op = op

\* The coordinate of the last operation.
LastCoord == <<lastOp.x, lastOp.y, lastOp.z>>

\* The operations that edit the content of the volume.
EditOps == {"setVoxel", "fillBrush", "addVolume", "fill"}

\* The step is a call of an edit operation.
CalledEdit == \E op \in EditOps : Called(op)

\* The indices of the allocated nodes: the baked and the edit region.
Allocated == {i \in 0 .. NodeStoreSize - 1 : isBakedNode(Vol, i) \/ isEditNode(Vol, i)}

BakedIndices == {i \in 0 .. NodeStoreSize - 1 : isBakedNode(Vol, i)}

\* The nodes reachable from index, which is at the given height.
RECURSIVE ReachableNodes(_, _, _)
ReachableNodes(nodes, index, height) ==
  IF height < 1 \/ isMaterialNode(index) \/ ~InStore(index) THEN {}
  ELSE {index} \cup UNION {ReachableNodes(nodes, nodes[index][c + 1], height - 1) :
                             c \in ChildIds}

\* The content reachable from a root index.
ContentOf(nodes, root) ==
  [q \in AllCoords |-> voxelFrom(nodes, root, RootHeight, q[1], q[2], q[3])]

C3_BakeKeepsContent ==
  [][(Called("bake") /\ ~asserted') =>
       \A q \in AllCoords : VoxelAt(q)' = VoxelAt(q)]_vars

\* C4 -- Undo/redo round trip: with trackEdits on, after setVoxel(x,y,z,m)
\* undo() makes voxel(x,y,z) the value it had immediately before the call and
\* a following redo() makes it m again.  Stated for the runs in which no
\* assert has failed.
C4_UndoRedo ==
  [][(Called("setVoxel") /\ mTrackEdits /\ lastOp'.res = "ok" /\ ~asserted') =>
       LET p == LastCoord'
           u == undo(Vol')
           r == redo(u.v)
       IN /\ voxel(u.v, p[1], p[2], p[3]) = VoxelAt(p)
          /\ voxel(r.v, p[1], p[2], p[3]) = lastOp'.m]_vars

\* C5 -- Linear history: with trackEdits on, immediately after an edit that
\* recorded a new root the history ends at the current root
\* (len(rootNodeIndices) = currentRoot + 1) and redo() returns false.  Stated
\* for the runs in which no assert has failed.
C5_LinearHistory ==
  (lastOp.op \in EditOps /\ lastOp.rootSet /\ lastOp.res = "ok" /\ mTrackEdits
     /\ ~asserted) =>
     /\ Len(mRootNodeIndices) = mCurrentRoot + 1
     /\ ~redo(Vol).ret

\* C6 -- Prunability invariant: no allocated node reachable from the live root
\* has all 8 children equal to one and the same material sentinel.  Stated for
\* the runs in which no assert has failed.
C6_NothingPrunable ==
  asserted \/ \A n \in ReachableNodes(mNodes, rootNodeIndex(Vol), RootHeight) \cap Allocated :
    ~isPrunable(mNodes[n])

\* C7 -- Region invariant: bakedNodesEnd <= editNodesBegin in every state, and
\* merge writes no node of its block onto a baked node or below MaterialCount.
\* Stated for the runs in which no assert has failed.
C7_Regions ==
  asserted \/ (mBakedNodesEnd <= mEditNodesBegin /\ ~lastOp.mergeOverwrote)

\* C8 -- Copy-on-write under tracking: with trackEdits on, a completed edit
\* has written to no node that was allocated, and the content reachable from
\* every root of the history is as it was.  Stated for the runs in which no
\* assert has failed.
C8_CopyOnWrite ==
  [][(CalledEdit /\ mTrackEdits /\ lastOp'.res = "ok" /\ ~asserted') =>
       /\ \A i \in Allocated : mNodes'[i] = mNodes[i]
       /\ \A k \in 1 .. Len(mRootNodeIndices) :
            ContentOf(mNodes', mRootNodeIndices[k]) =
              ContentOf(mNodes, mRootNodeIndices[k])]_vars

CountNodes == volumeCountNodes(Vol)

LastRhs == RhsVolumes[lastOp.x]

AllEmpty(v) == \A q \in AllCoords : voxel(v, q[1], q[2], q[3]) = 0

\* C13 -- Empty-material identity for combine: addVolume with a right-hand
\* volume that is material 0 everywhere leaves every voxel, the root history,
\* currentRoot (and so the live root) and countNodes() as they were, with
\* trackEdits on or off.  Stated for every run, those of a build without
\* asserts included.
C13_EmptyIdentity ==
  [][(Called("addVolume") /\ AllEmpty(LastRhs')) =>
       /\ \A q \in AllCoords : VoxelAt(q)' = VoxelAt(q)
       /\ mRootNodeIndices' = mRootNodeIndices
       /\ mCurrentRoot' = mCurrentRoot
       /\ CountNodes' = CountNodes]_vars

\* The brush of the last fillBrush.
LastBrush == Brushes[lastOp.x]

\* brush.contains(p) for the integer coordinate p
BrushContainsCoord(brush, q) ==
  BrushContains(brush, ToFloat(q[1]), ToFloat(q[2]), ToFloat(q[3]))

C15_SaveLoad ==
  Running =>
    \A garbage \in GarbageValues :
      LET saved == save(Vol)
          loaded == load(NewVolume(garbage), saved.file)
      IN (saved.res = "ok" /\ loaded.res = "ok") =>
           /\ \A q \in AllCoords : voxel(loaded.v, q[1], q[2], q[3]) = VoxelAt(q)
           /\ volumeCountNodes(loaded.v) = CountNodes

Observed(v) ==
  [content |-> ContentOf(v.nodes, rootNodeIndex(v)),
   count |-> volumeCountNodes(v),
   roots |-> v.roots,
   cur |-> v.cur]

\* C18 -- Recursive and iterative point edit: in every state and for every
\* (x,y,z,m), setVoxelRecursive and setVoxel end the same way and give the
\* same voxels, countNodes(), root history and currentRoot, with trackEdits on
\* or off and also when the voxel holds m already.  Stated for every run,
\* those of a build without asserts included.
C18_SameEdit ==
  Running =>
    \A p \in EditCoords, m \in Materials :
      LET iterative == setVoxel(Vol, p[1], p[2], p[3], m)
          recursive == setVoxelRecursive(Vol, p[1], p[2], p[3], m)
      IN /\ recursive.res = iterative.res
         /\ Observed(recursive.v) = Observed(iterative.v)

\* C19 -- Bake resets the edit region: immediately after a completed bake()
\* the edit region is empty, editNodesBegin = editNodesEnd.  Stated for the
\* runs in which no assert has failed.
C19_BakeResetsEdits ==
  (lastOp.op = "bake" /\ lastOp.res = "ok" /\ ~asserted) =>
    mEditNodesBegin = editNodesEnd

\* The allocated nodes reachable from some root of the history.
ReachableFromHistory ==
  Allocated \cap UNION {ReachableNodes(mNodes, mRootNodeIndices[k], RootHeight) :
                          k \in 1 .. Len(mRootNodeIndices)}

C21_History ==
  /\ Len(mRootNodeIndices) >= 1
  /\ 0 <= mCurrentRoot
  /\ mCurrentRoot < Len(mRootNodeIndices)
  /\ lastOp.op = "new" => mRootNodeIndices = <<0>>

\* A history of three roots with the live root in the middle: edits have been
\* recorded and one of them undone.
C21_Witness ==
  /\ Len(mRootNodeIndices) >= 3
  /\ mCurrentRoot > 0
  /\ mCurrentRoot < Len(mRootNodeIndices) - 1

\* The step is a call of setTrackEdits(false) that changes the volume.
CalledSetTrackEditsOff == lastOp'.op = "setTrackEdits" /\ lastOp'.m = 0

\* C22 -- setTrackEdits(false) collapses the history to the live root: after
\* the call rootNodeIndices has length 1 and holds the root that was live
\* before it, currentRoot is 0, every voxel value is as it was, and undo() and
\* redo() both return false.  Stated for every run, those of a build without
\* asserts included.
C22_Collapse ==
  [][CalledSetTrackEditsOff =>
       /\ mRootNodeIndices' = <<rootNodeIndex(Vol)>>
       /\ mCurrentRoot' = 0
       /\ \A q \in AllCoords : VoxelAt(q)' = VoxelAt(q)
       /\ ~undo(Vol').ret
       /\ ~redo(Vol').ret]_vars

\* setTrackEdits(false) has just collapsed a history onto a root that is a
\* node, with an earlier root of the history no longer recorded.
C22_Witness ==
  /\ lastOp.op = "setTrackEdits"
  /\ lastOp.m = 0
  /\ ~mTrackEdits
  /\ ~isMaterialNode(rootNodeIndex(Vol))
  /\ Len(mRootNodeIndices) = 1

\* The height of the node at which the paths to the voxels p and q part: the
\* largest height whose child id differs.
SplitHeight(p, q) ==
  LET differ == {h \in 1 .. RootHeight :
                   ChildIdAt(p[1], p[2], p[3], h) # ChildIdAt(q[1], q[2], q[3], h)}
  IN CHOOSE h \in differ : \A k \in differ : k <= h

\* The step is the second of two point edits of the freshly constructed volume
\* that write non-empty materials to two different voxels.
SecondOfTwoEdits ==
  /\ ops = 1
  /\ Called("setVoxel")
  /\ lastOp.op = "setVoxel"
  /\ lastOp.m # 0
  /\ lastOp'.m # 0
  /\ LastCoord' # LastCoord

\* Both voxels hold the material written to them after the second edit.
BothVoxelsSet ==
  /\ lastOp'.res = "ok"
  /\ voxel(Vol', lastOp.x, lastOp.y, lastOp.z) = lastOp.m
  /\ voxel(Vol', lastOp'.x, lastOp'.y, lastOp'.z) = lastOp'.m

C24_RootNeverSetToItself ==
  [][(mTrackEdits /\ (CalledEdit \/ Called("bake")) /\ lastOp'.rootSet) =>
       /\ rootNodeIndex(Vol') # rootNodeIndex(Vol)
       /\ mRootNodeIndices'[mCurrentRoot' + 1] # mRootNodeIndices'[mCurrentRoot']]_vars

\* C25 -- History survives bake: with trackEdits on, a bake() that completes
\* leaves every root recorded in the history up to the live root in its place
\* and with its content, so that each later undo() yields the voxel values the
\* volume had when that entry was the live root.
C25_HistorySurvivesBake ==
  [][(mTrackEdits /\ Called("bake") /\ lastOp'.res = "ok") =>
       \A k \in 1 .. mCurrentRoot + 1 :
         /\ mRootNodeIndices'[k] = mRootNodeIndices[k]
         /\ ContentOf(mNodes', mRootNodeIndices[k]) = ContentOf(mNodes, mRootNodeIndices[k])]_vars

C27_NoSentinelDereference ==
  lastOp.op \in EditOps => (~lastOp.matAccess /\ ~lastOp.matAssertRead)

\* C28 -- Height well-formedness: in every state, following the child slots of
\* any voxel's path from the live root reaches a material sentinel within
\* RootHeight steps, so voxel() returns a material and its final assertion
\* holds.  Stated for every run, those of a build without asserts included.
C28_HeightWellFormed ==
  Running =>
    \A q \in AllCoords :
      voxelAssertFrom(mNodes, rootNodeIndex(Vol), RootHeight, q[1], q[2], q[3])
====
